---- MODULE Spec2Model ----
(***************************************************************************)
(* Flappy Dragon (src/main.rs): the per-frame tick of the game state       *)
(* machine, the player physics, the obstacle and its collision test.       *)
(*                                                                         *)
(* Player.y, Player.velocity, State.frame_time and ctx.frame_time_ms are   *)
(* f32 in the source.  An f32 value v is represented here by the pair      *)
(* <<i, f>> with v = i + f / 2^27, i = floor(v) and 0 <= f < 2^27.  Every   *)
(* value the game computes is a multiple of 2^-27 (0.1f32 = 13421773 *     *)
(* 2^-27), so the representation is exact, and FAdd rounds the exact sum   *)
(* to the nearest f32, ties to even, as IEEE-754 addition does.            *)
(***************************************************************************)
EXTENDS Integers, Sequences, FiniteSets, TLC

VARIABLES mode, score, player, obstacle, frame_time, quitting, flaps, call

vars == <<mode, score, player, obstacle, frame_time, quitting, flaps, call>>

game == <<mode, score, player, obstacle, frame_time>>

(***************************************************************************)
(* Bounds of the exploration.                                              *)
(***************************************************************************)
\* largest player.x a physics step is taken from, long-flight specification
MaxX == 41
\* Space events consumed per game, long-flight specification
MaxFlaps == 2
\* the same two bounds for the specification with every key and short frames
MaxXKeys == 24
MaxFlapsKeys == 1
\* largest score handed to Obstacle::new by the harness, besides 100
MaxScoreArg == 21

(***************************************************************************)
(* f32 arithmetic.                                                         *)
(***************************************************************************)
Unit == 2^27

RECURSIVE Pow2(_)
Pow2(n) == IF n = 0 THEN 1 ELSE 2 * Pow2(n - 1)

RECURSIVE Log2(_)
Log2(n) == IF n <= 1 THEN 0 ELSE 1 + Log2(n \div 2)

\* the pair of the real number i + t / 2^27, t any integer
FNorm(i, t) == <<i + (t \div Unit), t % Unit>>

FNeg(a) == IF a[2] = 0 THEN <<-a[1], 0>> ELSE <<-a[1] - 1, Unit - a[2]>>

FLt(a, b) == a[1] < b[1] \/ (a[1] = b[1] /\ a[2] < b[2])

\* spacing of the f32 grid around the non-negative value m, in units of
\* 2^-27: a 24-bit significand, so 2^(e-23) for 2^e <= m < 2^(e+1)
Quantum(m) ==
    IF m[1] >= 1 THEN Pow2(Log2(m[1]) + 4)
    ELSE IF m[2] >= Unit \div 2 THEN 8
    ELSE IF m[2] >= Unit \div 4 THEN 4
    ELSE IF m[2] >= Unit \div 8 THEN 2
    ELSE 1

\* round to nearest, ties to even, of a non-negative value below 2^23
RoundMag(m) ==
    LET q  == Quantum(m)
        r  == m[2] % q
        lo == m[2] - r
        up == (2 * r > q) \/ (2 * r = q /\ (lo \div q) % 2 = 1)
    IN  FNorm(m[1], IF up THEN lo + q ELSE lo)

FRound(a) == IF a[1] < 0 THEN FNeg(RoundMag(FNeg(a))) ELSE RoundMag(a)

\* f32 addition
FAdd(a, b) == FRound(FNorm(a[1] + b[1], a[2] + b[2]))

\* `n as f32`, exact for |n| < 2^24
FromI32(n) == <<n, 0>>

\* `v as i32`: truncation toward zero
ToI32(a) == IF a[1] >= 0 \/ a[2] = 0 THEN a[1] ELSE a[1] + 1

\* i32 division, truncating toward zero
IDiv(a, b) ==
    LET q == (IF a < 0 THEN -a ELSE a) \div (IF b < 0 THEN -b ELSE b)
    IN  IF (a < 0) = (b < 0) THEN q ELSE -q

(***************************************************************************)
(* Constants of the program.                                               *)
(***************************************************************************)
SCREEN_WIDTH == 40
SCREEN_HEIGHT == 25
\* a frame budget of 75 ms
FRAME_DURATION_long == FromI32(75)

FRAME_DURATION == FromI32(50)
TERMINAL_VELOCITY == FromI32(1)
\* 0.1f32 = 0x3DCCCCCD = 13421773 * 2^-27
DELTA_V == <<0, 13421773>>
\* -0.5
FLAP_DELTA_V == <<-1, Unit \div 2>>
GAP_Y_MIN == 5
GAP_Y_MAX == 20

\* the row render_land draws the ground strip on
GroundRow == SCREEN_HEIGHT - 1

\* RandomNumberGenerator::range(min, max) draws from min up to, not
\* including, max
RandomRange(min, max) == min .. (max - 1)

\* the values of the random source the game specifications explore: both
\* ends of its range and the middle row; the harness explores them all
Draws == {r \in RandomRange(GAP_Y_MIN, GAP_Y_MAX) : r \in {GAP_Y_MIN, 12, GAP_Y_MAX - 1}}

Modes == {"Menu", "Playing", "End"}

\* ctx.key: None, Some(Space), Some(P), Some(Q), Some(any other key)
AllKeys == {"NoKey", "Space", "P", "Q", "Other"}

(***************************************************************************)
(* Player                                                                  *)
(***************************************************************************)
Player_new(x, y) == [x |-> x, y |-> FromI32(y), velocity |-> FromI32(0)]

\* a physics step that moves the player one column back
gravity_and_move_back(p) ==
    LET v == IF FLt(p.velocity, TERMINAL_VELOCITY)
             THEN FAdd(p.velocity, DELTA_V)
             ELSE p.velocity
    IN  LET y == FAdd(p.y, v)
        IN  [x |-> p.x - 1,
             y |-> IF FLt(y, FromI32(0)) THEN FromI32(0) ELSE y,
             velocity |-> v]

gravity_and_move(p) ==
    LET v == IF FLt(p.velocity, TERMINAL_VELOCITY)
             THEN FAdd(p.velocity, DELTA_V)
             ELSE p.velocity
    IN  LET y == FAdd(p.y, v)
        IN  [x |-> p.x + 1,
             y |-> IF FLt(y, FromI32(0)) THEN FromI32(0) ELSE y,
             velocity |-> v]

\* a flap that adds the impulse to the current velocity
flap_adds(p) == [p EXCEPT !.velocity = FAdd(p.velocity, FLAP_DELTA_V)]

\* a flap that also lifts the player by the impulse
flap_lifts(p) == [p EXCEPT !.velocity = FLAP_DELTA_V, !.y = FAdd(p.y, FLAP_DELTA_V)]

flap(p) == [p EXCEPT !.velocity = FLAP_DELTA_V]

(***************************************************************************)
(* Obstacle                                                                *)
(***************************************************************************)
\* the smaller of the two instead of the larger
i32_min(a, b) == IF a <= b THEN a ELSE b

i32_max(a, b) == IF a >= b THEN a ELSE b

\* an obstacle whose gap is not floored at 2
Obstacle_new_noFloor(x, s, r) == [x |-> x, gap_y |-> r, size |-> 20 - s]

\* r is the value random.range(GAP_Y_MIN, GAP_Y_MAX) returns
Obstacle_new(x, s, r) == [x |-> x, gap_y |-> r, size |-> i32_max(2, 20 - s)]

\* a collision test that counts the lower gap edge as wall
hit_obstacle_lowerEdge(o, p) ==
    LET half_size == IDiv(o.size, 2)
        does_x_match == p.x = o.x
        player_above_gap == FLt(p.y, FromI32(o.gap_y - half_size))
        player_below_gap == ~FLt(p.y, FromI32(o.gap_y + half_size))
    IN  does_x_match /\ (player_above_gap \/ player_below_gap)

hit_obstacle(o, p) ==
    LET half_size == IDiv(o.size, 2)
        does_x_match == p.x = o.x
        player_above_gap == FLt(p.y, FromI32(o.gap_y - half_size))
        player_below_gap == FLt(FromI32(o.gap_y + half_size), p.y)
    IN  does_x_match /\ (player_above_gap \/ player_below_gap)

(***************************************************************************)
(* State                                                                   *)
(***************************************************************************)
\* State::new, one initial state per value the random source can return
State_new ==
    /\ player = Player_new(5, IDiv(SCREEN_HEIGHT, 2))
    /\ frame_time = FromI32(0)
    /\ mode = "Menu"
    /\ score = 0
    /\ \E r \in Draws :
            obstacle = Obstacle_new(SCREEN_WIDTH, 0, r)

\* restart that keeps the score of the game that ended
restart_keepScore ==
    /\ player' = Player_new(5, IDiv(SCREEN_HEIGHT, 2))
    /\ frame_time' = FromI32(0)
    /\ mode' = "Playing"
    /\ score' = score
    /\ \E r \in Draws :
            obstacle' = Obstacle_new(SCREEN_WIDTH, 0, r)
    /\ flaps' = 0

\* restart that puts the first obstacle five columns ahead of the player
restart_obstacleNear ==
    /\ player' = Player_new(5, IDiv(SCREEN_HEIGHT, 2))
    /\ frame_time' = FromI32(0)
    /\ mode' = "Playing"
    /\ score' = 0
    /\ \E r \in Draws :
            obstacle' = Obstacle_new(5 + 5, 0, r)
    /\ flaps' = 0

restart ==
    /\ player' = Player_new(5, IDiv(SCREEN_HEIGHT, 2))
    /\ frame_time' = FromI32(0)
    /\ mode' = "Playing"
    /\ score' = 0
    /\ \E r \in Draws :
            obstacle' = Obstacle_new(SCREEN_WIDTH, 0, r)
    /\ flaps' = 0

\* a step as soon as the accumulated frame time reaches FRAME_DURATION
StepDue_atThreshold(ft) == ~FLt(ft, FRAME_DURATION)

\* line 148: the accumulated frame time has passed FRAME_DURATION
StepDue(ft) == FLt(FRAME_DURATION, ft)

\* the obstacle counted as passed while the player is still in its column
Passed_atColumn(p, o) == p.x >= o.x

\* the obstacle counted as passed one column late
Passed_late(p, o) == p.x > o.x + 1

\* line 161: the player is past the obstacle
Passed(p, o) == p.x > o.x

\* the player dies on the ground row instead of below it
Crashed_onGroundRow(p, o) == ToI32(p.y) >= SCREEN_HEIGHT - 1 \/ hit_obstacle(o, p)

\* the player dies only below the screen, the wall is never tested
Crashed_groundOnly(p, o) == ToI32(p.y) > SCREEN_HEIGHT - 1

\* line 172: the player is below the screen or in the wall
Crashed(p, o) == ToI32(p.y) > SCREEN_HEIGHT - 1 \/ hit_obstacle(o, p)

\* State::play with ctx.key = k and ctx.frame_time_ms = e; a physics step is
\* explored up to player.x = mx and Space up to mf times per game
play(k, e, mx, mf) ==
    LET ft == FAdd(frame_time, FromI32(e))
    IN  /\ StepDue(ft) => player.x < mx
        /\ k = "Space" => flaps < mf
        /\ frame_time' = IF StepDue(ft) THEN FromI32(0) ELSE ft
        /\ player' = LET p == IF StepDue(ft) THEN gravity_and_move(player)
                                             ELSE player
                     IN  IF k = "Space" THEN flap(p) ELSE p
        /\ flaps' = IF k = "Space" THEN flaps + 1 ELSE flaps
        /\ IF Passed(player', obstacle)
           THEN /\ score' = score + 1
                /\ \E r \in Draws :
                     obstacle' = Obstacle_new(player'.x + SCREEN_WIDTH, score', r)
           ELSE /\ score' = score
                /\ obstacle' = obstacle
        /\ mode' = IF Crashed(player', obstacle') THEN "End" ELSE mode
        /\ UNCHANGED quitting

\* a menu that starts the game on any key but Q
main_menu_anyKey(k) ==
    CASE k = "Q"     -> quitting' = TRUE /\ UNCHANGED <<game, flaps>>
      [] k = "NoKey" -> UNCHANGED <<game, flaps, quitting>>
      [] OTHER       -> restart /\ UNCHANGED quitting

main_menu(k) ==
    CASE k = "P" -> restart /\ UNCHANGED quitting
      [] k = "Q" -> quitting' = TRUE /\ UNCHANGED <<game, flaps>>
      [] OTHER   -> UNCHANGED <<game, flaps, quitting>>

\* P on the death screen returns to the menu instead of restarting
dead_toMenu(k) ==
    CASE k = "P" -> mode' = "Menu" /\ UNCHANGED <<score, player, obstacle, frame_time, flaps, quitting>>
      [] k = "Q" -> quitting' = TRUE /\ UNCHANGED <<game, flaps>>
      [] OTHER   -> UNCHANGED <<game, flaps, quitting>>

dead(k) ==
    CASE k = "P" -> restart /\ UNCHANGED quitting
      [] k = "Q" -> quitting' = TRUE /\ UNCHANGED <<game, flaps>>
      [] OTHER   -> UNCHANGED <<game, flaps, quitting>>

(***************************************************************************)
(* GameState::tick, one action per arm of the match on self.mode.  K and E *)
(* are the key events and elapsed times the host delivers.                 *)
(***************************************************************************)
TickMenu(K) ==
    /\ mode = "Menu"
    /\ \E k \in K : main_menu(k)
    /\ UNCHANGED call

TickEnd(K) ==
    /\ mode = "End"
    /\ \E k \in K : dead(k)
    /\ UNCHANGED call

TickPlaying(K, E, mx, mf) ==
    /\ mode = "Playing"
    /\ \E k \in K, e \in E : play(k, e, mx, mf)
    /\ UNCHANGED call

Init ==
    /\ State_new
    /\ quitting = FALSE
    /\ flaps = 0
    /\ call = <<>>

\* long flight: every frame is longer than FRAME_DURATION
Keys == {"NoKey", "Space", "P", "Other"}
Elapsed == {60}

Next ==
    \/ TickMenu(Keys)
    \/ TickPlaying(Keys, Elapsed, MaxX, MaxFlaps)
    \/ TickEnd(Keys)

Spec == Init /\ [][Next]_vars

\* every key, frames shorter than FRAME_DURATION
Ticks == {10, 50}

NextKeys ==
    \/ TickMenu(AllKeys)
    \/ TickPlaying(AllKeys, Ticks, MaxXKeys, MaxFlapsKeys)
    \/ TickEnd(AllKeys)

SpecKeys == Init /\ [][NextKeys]_vars

\* a player who never flaps: every key but Space, and the host keeps
\* delivering ticks with positive elapsed time while the game is played
KeysNoSpace == AllKeys \ {"Space"}

NextFall ==
    \/ TickMenu(KeysNoSpace)
    \/ TickPlaying(KeysNoSpace, Ticks, MaxXKeys, MaxFlapsKeys)
    \/ TickEnd(KeysNoSpace)

SpecFall ==
    /\ Init
    /\ [][NextFall]_vars
    /\ WF_vars(TickPlaying(KeysNoSpace, Ticks, MaxXKeys, MaxFlapsKeys))

(***************************************************************************)
(* The two pure functions of Obstacle, applied to arguments drawn from     *)
(* bounded sets: call holds the arguments and, once returned, the result.  *)
(***************************************************************************)
ScoreArgs == (0 .. MaxScoreArg) \cup {100}

\* obstacles as Obstacle::new builds them
ObstacleArgs ==
    {Obstacle_new(10, s, r) : s \in {0, 14, 15, 18}, r \in RandomRange(GAP_Y_MIN, GAP_Y_MAX)}

\* player positions: whole rows, and the f32 neighbours of a whole row
PlayerArgs ==
    {[x |-> x, y |-> y, velocity |-> FromI32(0)] :
        x \in {9, 10, 11},
        y \in {FromI32(n) : n \in 0 .. SCREEN_HEIGHT}
              \cup {<<8, Unit - 128>>, <<9, 128>>, <<14, Unit - 128>>, <<15, 128>>}}

InitCall ==
    /\ State_new
    /\ quitting = FALSE
    /\ flaps = 0
    /\ \/ \E s \in ScoreArgs, x \in {SCREEN_WIDTH, 5 + SCREEN_WIDTH} :
            call = [fn |-> "Obstacle::new", x |-> x, score |-> s, ret |-> <<>>]
       \/ \E o \in ObstacleArgs, p \in PlayerArgs :
            call = [fn |-> "hit_obstacle", o |-> o, p |-> p, ret |-> <<>>]

CallObstacleNew ==
    /\ call.fn = "Obstacle::new"
    /\ call.ret = <<>>
    /\ \E r \in RandomRange(GAP_Y_MIN, GAP_Y_MAX) :
            call' = [call EXCEPT !.ret = <<Obstacle_new(call.x, call.score, r)>>]
    /\ UNCHANGED <<game, quitting, flaps>>

CallHitObstacle ==
    /\ call.fn = "hit_obstacle"
    /\ call.ret = <<>>
    /\ call' = [call EXCEPT !.ret = <<hit_obstacle(call.o, call.p)>>]
    /\ UNCHANGED <<game, quitting, flaps>>

NextCall == CallObstacleNew \/ CallHitObstacle

SpecCall == InitCall /\ [][NextCall]_vars

(***************************************************************************)
(* Properties.                                                             *)
(***************************************************************************)
\* the tick is a Menu or End tick whose key event is P
PressP == (mode = "Menu" /\ main_menu("P")) \/ (mode = "End" /\ dead("P"))

\* y < n and y > n for an f32 pair y and an integer n
BelowInt(y, n) == y[1] < n
AboveInt(y, n) == y[1] > n \/ (y[1] = n /\ y[2] > 0)

\* C1: the mode starts as Menu and a tick changes it only from Menu to
\* Playing, from Playing to End or from End to Playing; Menu and End are
\* left only by a tick whose key is P, whatever the other keys and times.
C1_ModeTransitions ==
    /\ mode = "Menu"
    /\ [][/\ mode' # mode =>
                <<mode, mode'>> \in {<<"Menu", "Playing">>, <<"Playing", "End">>,
                                     <<"End", "Playing">>}
          /\ (mode \in {"Menu", "End"} /\ mode' # mode) => PressP
          /\ mode # "Menu" => mode' # "Menu"]_vars

\* a game that was started from the menu has ended
C1_Witness == mode = "End" /\ player.x > 5

\* C2 as claimed: P in Menu or End resets score, frame_time, mode and player
\* and creates the obstacle at x = 45 with size 18.
C2_Original ==
    [][PressP =>
        /\ score' = 0
        /\ frame_time' = <<0, 0>>
        /\ mode' = "Playing"
        /\ player' = [x |-> 5, y |-> <<12, 0>>, velocity |-> <<0, 0>>]
        /\ obstacle'.x = 45
        /\ obstacle'.size = 18]_vars

\* C2 amended: P in Menu or End resets score to 0, frame_time to 0, mode to
\* Playing, the player to (5, 12, 0), and creates the obstacle at world
\* x = 40 with the score-0 gap size 20.
C2_Restart ==
    [][PressP =>
        /\ score' = 0
        /\ frame_time' = <<0, 0>>
        /\ mode' = "Playing"
        /\ player' = [x |-> 5, y |-> <<12, 0>>, velocity |-> <<0, 0>>]
        /\ obstacle'.x = 40
        /\ obstacle'.size = 20]_vars

\* a restarted game, its first tick not yet taken
C2_Witness ==
    /\ mode = "Playing"
    /\ score = 0
    /\ player = [x |-> 5, y |-> <<12, 0>>, velocity |-> <<0, 0>>]
    /\ obstacle.x = 40
    /\ obstacle.size = 20

\* C3: a Playing tick adds 1 to score and replaces the obstacle exactly when
\* the player's x after the tick is greater than the obstacle's x; the new
\* obstacle is at player.x + 40 and sized by the incremented score; a Menu
\* or End tick that does not restart changes neither; score is never negative.
C3_ScoreAndReplacement ==
    [][/\ mode = "Playing" =>
            IF player'.x > obstacle.x
            THEN /\ score' = score + 1
                 /\ obstacle' # obstacle
                 /\ obstacle'.x = player'.x + 40
                 /\ obstacle'.size = (IF 20 - score' > 2 THEN 20 - score' ELSE 2)
            ELSE /\ score' = score
                 /\ obstacle' = obstacle
       /\ (mode # "Playing" /\ ~PressP) => (score' = score /\ obstacle' = obstacle)
       /\ score >= 0 /\ score' >= 0]_vars

\* the first obstacle has been passed and replaced
C3_Witness == mode = "Playing" /\ score = 1 /\ obstacle.x = player.x + 40

\* C4 as claimed: a Playing tick ends the game iff the integer part of y
\* exceeds the ground row minus 1, or the obstacle reports a collision.
C4_Original ==
    [][mode = "Playing" =>
        /\ mode' \in {"Playing", "End"}
        /\ mode' = "End" <=>
              (player'.y[1] > GroundRow - 1 \/ hit_obstacle(obstacle', player'))]_vars

\* C4 amended: a Playing tick ends the game iff, after the tick's updates,
\* the integer part of y exceeds the ground row (24), or the live obstacle
\* reports a collision; otherwise the mode stays Playing.
C4_Death ==
    [][mode = "Playing" =>
        /\ mode' \in {"Playing", "End"}
        /\ mode' = "End" <=>
              (player'.y[1] > GroundRow \/ hit_obstacle(obstacle', player'))]_vars

\* the game ended on the ground, clear of the wall
C4_Witness ==
    /\ mode = "End"
    /\ player.y[1] > GroundRow
    /\ ~hit_obstacle(obstacle, player)

\* C5: hit_obstacle is true iff the player is in the obstacle's column and
\* its y is less than gap_y - size/2 or greater than gap_y + size/2, the
\* division truncating; a player on either edge of the gap does not collide.
\* For the obstacle x = 10, gap_y = 12, size = 6: (10, 8) collides and
\* (10, 9), (10, 15) and (9, 0) do not.
C5_Collides ==
    (call # <<>> /\ call.fn = "hit_obstacle" /\ call.ret # <<>>) =>
        LET o    == call.o
            p    == call.p
            half == o.size \div 2
            at(x, y) == p.x = x /\ p.y = <<y, 0>>
        IN  /\ call.ret[1] = (/\ p.x = o.x
                              /\ \/ BelowInt(p.y, o.gap_y - half)
                                 \/ AboveInt(p.y, o.gap_y + half))
            /\ (o = [x |-> 10, gap_y |-> 12, size |-> 6]) =>
                  /\ at(10, 8) => call.ret[1]
                  /\ at(10, 9) => ~call.ret[1]
                  /\ at(10, 15) => ~call.ret[1]
                  /\ at(9, 0) => ~call.ret[1]

\* the player one row above the gap of the example obstacle collides
C5_Witness ==
    /\ call # <<>> /\ call.fn = "hit_obstacle"
    /\ call.o = [x |-> 10, gap_y |-> 12, size |-> 6]
    /\ call.p.x = 10 /\ call.p.y = <<8, 0>>
    /\ call.ret = <<TRUE>>

C7_FrameStep ==
    [][\A e \in Ticks :
        (mode = "Playing" /\ \E k \in AllKeys : play(k, e, MaxXKeys, MaxFlapsKeys)) =>
            IF frame_time[1] + e > 50
            THEN /\ frame_time' = <<0, 0>>
                 /\ player'.x = player.x + 1
                 /\ player'.y = gravity_and_move(player).y
            ELSE /\ frame_time' = <<frame_time[1] + e, 0>>
                 /\ player'.x = player.x
                 /\ player'.y = player.y]_vars

\* frame_time has reached exactly 50 ms and no step was taken
C7_Witness ==
    /\ mode = "Playing"
    /\ frame_time = <<50, 0>>
    /\ player.x = 5 /\ player.y = <<12, 0>>

\* C8: a Playing tick whose key is Space leaves velocity at -0.5, with or
\* without a physics step in the same tick, and x and y are what the tick
\* gives without the flap.
C8_Flap ==
    [][\A e \in Ticks :
        (mode = "Playing" /\ play("Space", e, MaxXKeys, MaxFlapsKeys)) =>
            /\ player'.velocity = <<-1, 67108864>>
            /\ IF frame_time[1] + e > 50
               THEN /\ player'.x = player.x + 1
                    /\ player'.y = gravity_and_move(player).y
               ELSE /\ player'.x = player.x
                    /\ player'.y = player.y]_vars

\* a tick that took a physics step and flapped
C8_Witness ==
    /\ mode = "Playing"
    /\ player.x > 5
    /\ frame_time = <<0, 0>>
    /\ player.velocity = <<-1, 67108864>>

\* C9 as claimed: the size of an obstacle created with score s is
\* max(2, 20 - s); 18 for s = 0, 2 for s = 18 and for s = 100.
C9_Original ==
    (call # <<>> /\ call.fn = "Obstacle::new" /\ call.ret # <<>>) =>
        LET s == call.score
            size == call.ret[1].size
        IN  /\ size = (IF 20 - s > 2 THEN 20 - s ELSE 2)
            /\ s = 0 => size = 18
            /\ s = 18 => size = 2
            /\ s = 100 => size = 2

\* C9 amended: the size of an obstacle created with score s >= 0 is
\* max(2, 20 - s); 20 for s = 0, 2 for s = 18 and for s = 100.
C9_Size ==
    (call # <<>> /\ call.fn = "Obstacle::new" /\ call.ret # <<>>) =>
        LET s == call.score
            size == call.ret[1].size
        IN  /\ size = (IF 20 - s > 2 THEN 20 - s ELSE 2)
            /\ s = 0 => size = 20
            /\ s = 18 => size = 2
            /\ s = 100 => size = 2

\* an obstacle created with score 100
C9_Witness ==
    /\ call # <<>> /\ call.fn = "Obstacle::new"
    /\ call.score = 100
    /\ call.ret # <<>> /\ call.ret[1].size = 2

\* C10: a Menu or End tick with no key or a key other than P leaves mode,
\* score, player, obstacle and frame_time as they are, and sets the quit
\* flag iff the key is Q; the flag changes only in such a Q tick, never in
\* a Playing tick, and once set it stays set.
C10_MenuKeys ==
    [][/\ \A k \in AllKeys \ {"P"} :
            ((mode = "Menu" /\ main_menu(k)) \/ (mode = "End" /\ dead(k))) =>
                /\ UNCHANGED game
                /\ quitting' = (quitting \/ k = "Q")
       /\ quitting' # quitting =>
            /\ mode \in {"Menu", "End"}
            /\ (mode = "Menu" /\ main_menu("Q")) \/ (mode = "End" /\ dead("Q"))
       /\ quitting => quitting']_vars

\* Q was pressed on the death screen
C10_Witness == mode = "End" /\ quitting

\* C11: in Playing the key decides nothing but the velocity.  Every Playing
\* tick with elapsed time e ends with the frame_time, quit flag, x, y, score,
\* obstacle (up to the random gap row of a replacement) and mode that the
\* state and e alone determine, whatever the key; a tick with any key but
\* Space is also a tick with no key, velocity included.
C11_KeyIndependence ==
    [][\A e \in Ticks :
        LET step == frame_time[1] + e > 50
            p0   == IF step THEN gravity_and_move(player) ELSE player
            pass == player'.x > obstacle.x
        IN  /\ (mode = "Playing" /\ \E k \in AllKeys : play(k, e, MaxXKeys, MaxFlapsKeys)) =>
                /\ frame_time' = (IF step THEN <<0, 0>> ELSE <<frame_time[1] + e, 0>>)
                /\ quitting' = quitting
                /\ [player' EXCEPT !.velocity = <<0, 0>>] = [p0 EXCEPT !.velocity = <<0, 0>>]
                /\ score' = (IF pass THEN score + 1 ELSE score)
                /\ IF pass THEN obstacle'.x = player'.x + 40 ELSE obstacle' = obstacle
                /\ mode' = (IF player'.y[1] > 24 \/ hit_obstacle(obstacle', player')
                            THEN "End" ELSE "Playing")
            /\ (mode = "Playing"
                /\ \E k \in AllKeys \ {"Space"} : play(k, e, MaxXKeys, MaxFlapsKeys)) =>
                /\ player'.velocity = p0.velocity
                /\ play("NoKey", e, MaxXKeys, MaxFlapsKeys)]_vars

\* a Space tick that took no physics step
C11_Witness ==
    /\ mode = "Playing"
    /\ frame_time = <<10, 0>>
    /\ player.velocity = <<-1, 67108864>>

\* C12 as claimed: no tick, in any mode and with any key, lowers player.x.
C12_Original == [][player'.x >= player.x]_vars

\* C12: player.x never decreases within a game.  Every Playing tick and every
\* Menu or End tick whose key is not P leaves player.x at least what it was,
\* a Playing tick raising it by one at most; a Menu or End tick with P starts
\* a new game with player.x back at 5.
C12_XMonotone ==
    [][/\ ~PressP => (player'.x >= player.x /\ player'.x <= player.x + 1)
       /\ (mode # "Playing" /\ ~PressP) => player'.x = player.x
       /\ PressP => player'.x = 5]_vars

\* a game that ended after the player had advanced
C12_Witness == mode = "End" /\ player.x >= 20

\* C13 as claimed: in every reachable state y >= 0 and
\* -0.5 <= velocity <= 1.0.
C13_Original ==
    /\ ~FLt(player.y, <<0, 0>>)
    /\ ~FLt(TERMINAL_VELOCITY, player.velocity)
    /\ ~FLt(player.velocity, FLAP_DELTA_V)

\* C14 as claimed: Obstacle::new returns a gap row in the inclusive band
\* [GAP_Y_MIN, GAP_Y_MAX], and a pending call can return every row of the
\* band, GAP_Y_MAX included.
C14_Original ==
    /\ (call # <<>> /\ call.fn = "Obstacle::new" /\ call.ret # <<>>) =>
            call.ret[1].gap_y \in GAP_Y_MIN .. GAP_Y_MAX
    /\ (call # <<>> /\ call.fn = "Obstacle::new" /\ call.ret = <<>>) =>
            \A v \in GAP_Y_MIN .. GAP_Y_MAX :
                ENABLED (CallObstacleNew /\ call'.ret[1].gap_y = v)

\* p.y lies in [gap_y - size/2, gap_y + size/2] of obstacle o
InGap(p, o) ==
    /\ ~BelowInt(p.y, o.gap_y - IDiv(o.size, 2))
    /\ ~AboveInt(p.y, o.gap_y + IDiv(o.size, 2))

\* C15: the wall is tested before the score counts.  A Playing tick raises
\* the score only from a Playing state whose player stands in the obstacle's
\* column with y inside [gap_y - size/2, gap_y + size/2], and every Playing
\* state with the player in the obstacle's column has y inside that band.
C15_NoSkip ==
    /\ [](mode = "Playing" /\ player.x = obstacle.x => InGap(player, obstacle))
    /\ [][(mode = "Playing" /\ score' # score) =>
            /\ score' = score + 1
            /\ player.x = obstacle.x
            /\ player'.x = obstacle.x + 1
            /\ InGap(player, obstacle)]_vars

\* the first point: the player has left the first obstacle's column
C15_Witness == score = 1 /\ player.x = 41

\* C16: in every reachable state the obstacle's gap size is
\* max(2, 20 - score), never less than 2.
C16_SizeTracksScore ==
    /\ obstacle.size = (IF 20 - score >= 2 THEN 20 - score ELSE 2)
    /\ obstacle.size >= 2

\* the replacement obstacle of the first point
C16_Witness == score = 1 /\ obstacle.size = 19 /\ obstacle.x = 81

\* C17: initially and after every tick the obstacle is at or ahead of the
\* player and at most SCREEN_WIDTH columns ahead.
C17_ObstacleAhead ==
    /\ player.x <= obstacle.x
    /\ obstacle.x <= player.x + 40

\* the lower end of the band: the player flies through the obstacle's column
C17_Witness ==
    /\ mode = "Playing"
    /\ score = 0
    /\ player.x = obstacle.x

\* C18: in every mode, initially and after every tick,
\* 0 <= frame_time <= FRAME_DURATION (50).
C18_FrameTimeRange ==
    /\ frame_time[1] >= 0
    /\ ~AboveInt(frame_time, 50)

\* the accumulated time stands exactly at the frame budget, mid game
C18_Witness ==
    /\ mode = "Playing"
    /\ frame_time = <<50, 0>>
    /\ player.x > 5

\* C19: without Space and with ticks of positive elapsed time arriving, a
\* game that is being played always ends, and it ends with score 0: the
\* player is below the screen, still short of the first obstacle.
C19_FallsToEnd ==
    (mode = "Playing") ~>
        (mode = "End" /\ score = 0 /\ player.y[1] > 24 /\ player.x < obstacle.x)

\* the game of a player who never flapped has ended on the ground
C19_Witness ==
    /\ mode = "End"
    /\ score = 0
    /\ flaps = 0
    /\ player.x = 23
    /\ obstacle.x = 40

====
